---- MODULE Spec2Model ----
(***************************************************************************)
(* scripts/update-stats.js: fetch the contribution calendar of one GitHub  *)
(* account year by year, reduce it to three statistics, render them as a   *)
(* badge block and patch the block into README.md between two markers.     *)
(*                                                                         *)
(* Texts (the README, the rendered block) are sequences of tokens; the two *)
(* markers are single tokens, as neither can overlap itself or the other.  *)
(* Instants are integers; year y spans YearStart(y) .. YearEnd(y).         *)
(***************************************************************************)
EXTENDS Integers, Sequences, FiniteSets

VARIABLES
  pc,           \* position of the single thread of control
  token,        \* process.env.GITHUB_TOKEN
  file,         \* contents of README.md on disk
  file0,        \* history: contents of README.md when the run started
  apiYears,     \* contributionYears the API holds for the account
  apiCalendar,  \* per year, the weeks the API holds for the account
  requests,     \* history: the GraphQL requests issued, in order
  responses,    \* history: the responses received, in order
  sortedYears,  \* fetchAllContributionDays: sortedYears
  idx,          \* fetchAllContributionDays: position of the for-of loop
  today,        \* fetchAllContributionDays: today
  days,         \* fetchAllContributionDays: days, then main: days
  stats,        \* main: stats (<<>> until computed)
  block,        \* main: block (<<>> until rendered)
  content,      \* injectStats: content
  stdout,       \* lines printed by console.log
  stderr,       \* errors printed by console.error
  exitCode,     \* process.exitCode
  reads,        \* history: number of readFileSync calls on README.md
  writes        \* history: number of writeFileSync calls on README.md

vars == <<pc, token, file, file0, apiYears, apiCalendar, requests,
          responses, sortedYears, idx, today, days, stats, block, content,
          stdout, stderr, exitCode, reads, writes>>

----------------------------------------------------------------------------
(* Bounds of the model *)

\* number of account years the API may report
NumYears == 2
\* instants per year
YearLen == 2
\* largest contributionCount the API reports
MaxCount == 1
\* most days the API holds for the account (aggregation on its own)
MaxDays == 2
\* longest day sequence handed to computeStats on its own
MaxLen == 5
\* longest README text handed to injectStats on its own
MaxFileLen == 4

----------------------------------------------------------------------------
(* Module-level constants of the script *)

START_MARKER == "<!-- GITHUB-STATS:START -->"
END_MARKER == "<!-- GITHUB-STATS:END -->"
LOGIN == "KamrulIbnZaman"

----------------------------------------------------------------------------
(* Generic helpers *)

SeqsUpTo(S, n) == UNION {[1..k -> S] : k \in 0..n}

Range(s) == {s[i] : i \in DOMAIN s}

\* String.prototype.includes with a marker as the needle
Includes(text, marker) == \E i \in DOMAIN text : text[i] = marker

----------------------------------------------------------------------------
(* Time *)

Years == 1..NumYears
CurrentYear == NumYears
YearStart(y) == y * YearLen
YearEnd(y) == y * YearLen + (YearLen - 1)
GetUTCFullYear(i) == i \div YearLen

\* the instant the clock shows during the run: new Date()
Now == YearStart(CurrentYear)
\* the dates a calendar day may carry: the last day of the year before,
\* today, and tomorrow (a date in the future)
Dates == (YearStart(CurrentYear) - 1)..(YearStart(CurrentYear) + 1)

----------------------------------------------------------------------------
(* contributionCount values as the JSON body may carry them *)

RawCounts ==
  {[t |-> "number", v |-> n] : n \in (-1)..MaxCount} \cup
  {[t |-> "numeric string", v |-> 1],
   [t |-> "text", v |-> 0],
   [t |-> "null", v |-> 0],
   [t |-> "undefined", v |-> 0]}

\* Number(x): a number, or NaN
ToNumber(raw) ==
  CASE raw.t = "number" -> [nan |-> FALSE, v |-> raw.v]
    [] raw.t = "numeric string" -> [nan |-> FALSE, v |-> raw.v]
    [] raw.t = "null" -> [nan |-> FALSE, v |-> 0]
    [] OTHER -> [nan |-> TRUE, v |-> 0]

\* a wrong fallback value
NumberOrOne(raw) ==
  LET n == ToNumber(raw) IN IF n.nan \/ n.v = 0 THEN 1 ELSE n.v

\* Number(day.contributionCount) || 0
NumberOrZero(raw) ==
  LET n == ToNumber(raw) IN IF n.nan \/ n.v = 0 THEN 0 ELSE n.v

ApiDays == [date : Dates, contributionCount : RawCounts]

\* calendar.weeks.flatMap(week => week.contributionDays.map(...))
RECURSIVE FlatMapWeeks(_)
FlatMapWeeks(weeks) ==
  IF weeks = <<>> THEN <<>>
  ELSE [i \in DOMAIN Head(weeks).contributionDays |->
          [date |-> Head(weeks).contributionDays[i].date,
           count |-> NumberOrZero(Head(weeks).contributionDays[i].contributionCount)]]
       \o FlatMapWeeks(Tail(weeks))

\* days.filter(day => new Date(day.date) <= today)
FilterNotAfter(ds, t) == SelectSeq(ds, LAMBDA d : d.date <= t)

\* Array.prototype.sort with (a, b) => new Date(a.date) - new Date(b.date):
\* a stable sort, here by insertion
RECURSIVE InsertByDate(_, _)
InsertByDate(sorted, d) ==
  IF sorted = <<>> THEN <<d>>
  ELSE IF Head(sorted).date <= d.date
       THEN <<Head(sorted)>> \o InsertByDate(Tail(sorted), d)
       ELSE <<d>> \o sorted

RECURSIVE SortByDate(_)
SortByDate(ds) ==
  IF ds = <<>> THEN <<>>
  ELSE InsertByDate(SortByDate(SubSeq(ds, 1, Len(ds) - 1)), ds[Len(ds)])

\* a sort that was left out
UnsortedYears(ys) == ys

RECURSIVE InsertYear(_, _)
InsertYear(sorted, y) ==
  IF sorted = <<>> THEN <<y>>
  ELSE IF Head(sorted) <= y
       THEN <<Head(sorted)>> \o InsertYear(Tail(sorted), y)
       ELSE <<y>> \o sorted

\* [...years].sort((a, b) => a - b)
RECURSIVE SortYears(_)
SortYears(ys) ==
  IF ys = <<>> THEN <<>>
  ELSE InsertYear(SortYears(SubSeq(ys, 1, Len(ys) - 1)), ys[Len(ys)])

----------------------------------------------------------------------------
(* computeStats *)

RECURSIVE TotalLoop(_, _)
TotalLoop(ds, total) ==
  IF ds = <<>> THEN total ELSE TotalLoop(Tail(ds), total + Head(ds).count)

\* the running streak is never reset
RECURSIVE LongestNoReset(_, _, _)
LongestNoReset(ds, rolling, longestStreak) ==
  IF ds = <<>> THEN longestStreak
  ELSE IF Head(ds).count > 0
       THEN LongestNoReset(Tail(ds), rolling + 1,
                           IF rolling + 1 > longestStreak THEN rolling + 1
                                                          ELSE longestStreak)
       ELSE LongestNoReset(Tail(ds), rolling, longestStreak)

\* the longest streak is recorded only when a streak is broken
RECURSIVE LongestOnReset(_, _, _)
LongestOnReset(ds, rolling, longestStreak) ==
  IF ds = <<>> THEN longestStreak
  ELSE IF Head(ds).count > 0
       THEN LongestOnReset(Tail(ds), rolling + 1, longestStreak)
       ELSE LongestOnReset(Tail(ds), 0,
                           IF rolling > longestStreak THEN rolling
                                                      ELSE longestStreak)

\* the first for loop, lines 132-142
RECURSIVE LongestStreakLoop(_, _, _)
LongestStreakLoop(ds, rolling, longestStreak) ==
  IF ds = <<>> THEN longestStreak
  ELSE IF Head(ds).count > 0
       THEN LongestStreakLoop(Tail(ds), rolling + 1,
                              IF rolling + 1 > longestStreak THEN rolling + 1
                                                             ELSE longestStreak)
       ELSE LongestStreakLoop(Tail(ds), 0, longestStreak)

\* the backward loop without its break
RECURSIVE CurrentNoBreak(_, _, _)
CurrentNoBreak(ds, i, currentStreak) ==
  IF i < 1 THEN currentStreak
  ELSE IF ds[i].count > 0
       THEN CurrentNoBreak(ds, i - 1, currentStreak + 1)
       ELSE CurrentNoBreak(ds, i - 1, currentStreak)

\* the second for loop, lines 145-151
RECURSIVE CurrentStreakLoop(_, _, _)
CurrentStreakLoop(ds, i, currentStreak) ==
  IF i < 1 THEN currentStreak
  ELSE IF ds[i].count > 0
       THEN CurrentStreakLoop(ds, i - 1, currentStreak + 1)
       ELSE currentStreak

\* the first loop, with the longest streak recorded only at a break
computeStatsOnReset(ds) ==
  [total |-> TotalLoop(ds, 0),
   longestStreak |-> LongestOnReset(ds, 0, 0),
   currentStreak |-> CurrentStreakLoop(ds, Len(ds), 0)]

computeStats(ds) ==
  [total |-> TotalLoop(ds, 0),
   longestStreak |-> LongestStreakLoop(ds, 0, 0),
   currentStreak |-> CurrentStreakLoop(ds, Len(ds), 0)]

----------------------------------------------------------------------------
(* renderStats *)

DigitChars == <<"0", "1", "2", "3", "4", "5", "6", "7", "8", "9">>

RECURSIVE DigitsOf(_)
DigitsOf(n) ==
  IF n < 10 THEN <<DigitChars[n + 1]>>
  ELSE DigitsOf(n \div 10) \o <<DigitChars[(n % 10) + 1]>>

RECURSIVE GroupThousands(_)
GroupThousands(ds) ==
  IF Len(ds) <= 3 THEN ds
  ELSE GroupThousands(SubSeq(ds, 1, Len(ds) - 3)) \o <<",">>
       \o SubSeq(ds, Len(ds) - 2, Len(ds))

\* Number(value || 0).toLocaleString('en-US')
formatNumber(value) ==
  IF value < 0 THEN <<"-">> \o GroupThousands(DigitsOf(0 - value))
  ELSE GroupThousands(DigitsOf(value))

\* encodeURIComponent on the characters a label can hold
encodeURIComponent(chars) ==
  [i \in DOMAIN chars |->
     CASE chars[i] = "," -> "%2C"
       [] chars[i] = " " -> "%20"
       [] OTHER -> chars[i]]

\* `${formatNumber(n)} day${n === 1 ? '' : 's'}`
DayLabel(n) ==
  formatNumber(n) \o <<" ", "d", "a", "y">> \o (IF n = 1 THEN <<>> ELSE <<"s">>)

renderStats(s) ==
  <<START_MARKER, "<p align=center>", "<img badge/Total%20Commits-">>
  \o encodeURIComponent(formatNumber(s.total))
  \o <<"-2ea44f?style=for-the-badge&logo=github&labelColor=1c1c1c />",
       "<img badge/Longest%20Streak-">>
  \o encodeURIComponent(DayLabel(s.longestStreak))
  \o <<"-1f6feb?style=for-the-badge&logo=github&labelColor=1c1c1c />",
       "<img badge/Current%20Streak-">>
  \o encodeURIComponent(DayLabel(s.currentStreak))
  \o <<"-bf4b8a?style=for-the-badge&logo=github&labelColor=1c1c1c />",
       "</p>", END_MARKER>>

----------------------------------------------------------------------------
(* injectStats *)

\* the test with && in place of ||
MissingBothMarkers(text) ==
  ~Includes(text, START_MARKER) /\ ~Includes(text, END_MARKER)

\* !content.includes(START_MARKER) || !content.includes(END_MARKER)
MissingMarkers(text) ==
  ~Includes(text, START_MARKER) \/ ~Includes(text, END_MARKER)

\* where new RegExp(`${START_MARKER}[\\s\\S]*?${END_MARKER}`) matches first:
\* the leftmost start marker that has an end marker after it, up to the
\* nearest such end marker; <<0, 0>> when there is no match
RegExpMatch(text) ==
  LET starts == {i \in DOMAIN text :
                   /\ text[i] = START_MARKER
                   /\ \E j \in DOMAIN text : j > i /\ text[j] = END_MARKER}
  IN IF starts = {} THEN <<0, 0>>
     ELSE LET i == CHOOSE a \in starts : \A b \in starts : a <= b
              ends == {j \in DOMAIN text : j > i /\ text[j] = END_MARKER}
              j == CHOOSE a \in ends : \A b \in ends : a <= b
          IN <<i, j>>

\* content.replace(regexp, statsBlock); the block holds no $ pattern
Replace(text, statsBlock) ==
  LET m == RegExpMatch(text)
  IN IF m = <<0, 0>> THEN text
     ELSE SubSeq(text, 1, m[1] - 1) \o statsBlock
          \o SubSeq(text, m[2] + 1, Len(text))

----------------------------------------------------------------------------
(* The requests and the responses *)

YearsQuery == [query |-> "contributionYears", from |-> 0, to |-> 0]
CalendarQuery(from, to) == [query |-> "contributionCalendar", from |-> from, to |-> to]

\* a response as graphqlRequest sees it: the HTTP status is a success or not,
\* the JSON body has an errors field or not
HttpResponses ==
  {[ok |-> TRUE, errors |-> FALSE], [ok |-> TRUE, errors |-> TRUE],
   [ok |-> FALSE, errors |-> FALSE]}

\* graphqlRequest without the test of body.errors
graphqlRequestNoErrorsTest(r) ==
  IF ~r.ok THEN "GitHub API request failed" ELSE "data"

\* graphqlRequest: the error it throws, or "data" when it returns body.data
graphqlRequest(r) ==
  IF ~r.ok THEN "GitHub API request failed"
  ELSE IF r.errors THEN "GitHub API returned errors"
  ELSE "data"

\* the test of the token that lets the empty string through
TokenUndefined(t) == t = "undefined"

\* !token
TokenMissing(t) == t = "undefined" \/ t = ""

\* a throw anywhere below main: main().catch prints the error and sets the
\* exit code
Throw(error) ==
  /\ pc' = "failed"
  /\ stderr' = Append(stderr, error)
  /\ exitCode' = 1

----------------------------------------------------------------------------
(* main and the functions it calls, one action per step *)

\* main, lines 13-16
CheckToken ==
  /\ pc = "main"
  /\ IF TokenMissing(token)
     THEN Throw("GITHUB_TOKEN is required")
     ELSE pc' = "fetchYears" /\ UNCHANGED <<stderr, exitCode>>
  /\ UNCHANGED <<token, file, file0, apiYears, apiCalendar, requests, responses,
                 sortedYears, idx, today, days, stats, block, content, stdout,
                 reads, writes>>

\* fetchContributionYears: the fetch() of graphqlRequest
SendYearsQuery ==
  /\ pc = "fetchYears"
  /\ requests' = Append(requests, YearsQuery)
  /\ pc' = "awaitYears"
  /\ UNCHANGED <<token, file, file0, apiYears, apiCalendar, responses,
                 sortedYears, idx, today, days, stats, block, content, stdout,
                 stderr, exitCode, reads, writes>>

\* the response to the year query resolves: graphqlRequest lines 113-123,
\* fetchContributionYears lines 72-73, fetchAllContributionDays lines 29-35
RecvYears ==
  /\ pc = "awaitYears"
  /\ \E r \in HttpResponses, isArray \in BOOLEAN :
       /\ (~r.ok => ~isArray)
       /\ LET years == IF isArray THEN apiYears ELSE <<>>
              out == graphqlRequest(r)
          IN /\ responses' = Append(responses,
                   [ok |-> r.ok, errors |-> r.errors,
                    data |-> IF ~isArray THEN "absent"
                             ELSE IF apiYears = <<>> THEN "empty" ELSE "present"])
             /\ IF out # "data"
                THEN Throw(out) /\ UNCHANGED <<sortedYears, idx, today, days>>
                ELSE IF Len(years) = 0
                THEN /\ Throw("No contribution years found")
                     /\ UNCHANGED <<sortedYears, idx, today, days>>
                ELSE /\ today' = Now
                     /\ sortedYears' = SortYears(years)
                     /\ days' = <<>>
                     /\ idx' = 1
                     /\ pc' = "loop"
                     /\ UNCHANGED <<stderr, exitCode>>
  /\ UNCHANGED <<token, file, file0, apiYears, apiCalendar, requests, stats,
                 block, content, stdout, reads, writes>>

\* one turn of the for-of loop up to its await: lines 37-44 and the fetch()
SendCalendarQuery ==
  /\ pc = "loop"
  /\ idx <= Len(sortedYears)
  /\ LET year == sortedYears[idx]
         from == YearStart(year)
         to == IF year = GetUTCFullYear(today) THEN today ELSE YearEnd(year)
     IN requests' = Append(requests, CalendarQuery(from, to))
  /\ pc' = "awaitCalendar"
  /\ UNCHANGED <<token, file, file0, apiYears, apiCalendar, responses,
                 sortedYears, idx, today, days, stats, block, content, stdout,
                 stderr, exitCode, reads, writes>>

\* the response to a calendar query resolves: graphqlRequest lines 113-123,
\* fetchContributionCalendar lines 95-99, the push of lines 45-52
RecvCalendar ==
  /\ pc = "awaitCalendar"
  /\ \E r \in HttpResponses, data \in {"present", "absent", "no weeks"} :
       /\ (~r.ok => data = "absent")
       /\ LET out == graphqlRequest(r)
          IN /\ responses' = Append(responses,
                   [ok |-> r.ok, errors |-> r.errors, data |-> data])
             /\ IF out # "data"
                THEN Throw(out) /\ UNCHANGED <<idx, days>>
                ELSE IF data = "absent"
                THEN /\ Throw("Contribution calendar not found")
                     /\ UNCHANGED <<idx, days>>
                ELSE IF data = "no weeks"
                THEN Throw("TypeError") /\ UNCHANGED <<idx, days>>
                ELSE /\ days' = days \o FlatMapWeeks(apiCalendar[sortedYears[idx]])
                     /\ idx' = idx + 1
                     /\ pc' = "loop"
                     /\ UNCHANGED <<stderr, exitCode>>
  /\ UNCHANGED <<token, file, file0, apiYears, apiCalendar, requests,
                 sortedYears, today, stats, block, content, stdout, reads,
                 writes>>

\* the loop is over: lines 55-57
ReturnDays ==
  /\ pc = "loop"
  /\ idx > Len(sortedYears)
  /\ days' = SortByDate(FilterNotAfter(days, today))
  /\ pc' = "compute"
  /\ UNCHANGED <<token, file, file0, apiYears, apiCalendar, requests, responses,
                 sortedYears, idx, today, stats, block, content, stdout, stderr,
                 exitCode, reads, writes>>

\* main, line 19
ComputeStats ==
  /\ pc = "compute"
  /\ stats' = <<computeStats(days)>>
  /\ pc' = "render"
  /\ UNCHANGED <<token, file, file0, apiYears, apiCalendar, requests, responses,
                 sortedYears, idx, today, days, block, content, stdout, stderr,
                 exitCode, reads, writes>>

\* main, line 20
RenderStats ==
  /\ pc = "render"
  /\ block' = renderStats(stats[1])
  /\ pc' = "inject"
  /\ UNCHANGED <<token, file, file0, apiYears, apiCalendar, requests, responses,
                 sortedYears, idx, today, days, stats, content, stdout, stderr,
                 exitCode, reads, writes>>

\* injectStats, lines 176-179
InjectRead ==
  /\ pc = "inject"
  /\ content' = file
  /\ reads' = reads + 1
  /\ IF MissingMarkers(file)
     THEN Throw("README is missing required GITHUB-STATS markers")
     ELSE pc' = "replace" /\ UNCHANGED <<stderr, exitCode>>
  /\ UNCHANGED <<token, file, file0, apiYears, apiCalendar, requests, responses,
                 sortedYears, idx, today, days, stats, block, stdout, writes>>

\* injectStats, lines 181-186
InjectWrite ==
  /\ pc = "replace"
  /\ file' = Replace(content, block)
  /\ writes' = writes + 1
  /\ pc' = "log"
  /\ UNCHANGED <<token, file0, apiYears, apiCalendar, requests, responses,
                 sortedYears, idx, today, days, stats, block, content, stdout,
                 stderr, exitCode, reads>>

\* main, lines 22-24
LogSummary ==
  /\ pc = "log"
  /\ stdout' = Append(stdout,
       [login |-> LOGIN, total |-> stats[1].total,
        longest |-> stats[1].longestStreak, current |-> stats[1].currentStreak])
  /\ pc' = "done"
  /\ UNCHANGED <<token, file, file0, apiYears, apiCalendar, requests, responses,
                 sortedYears, idx, today, days, stats, block, content, stderr,
                 exitCode, reads, writes>>

----------------------------------------------------------------------------
(* The whole run *)

Tokens == {"undefined", "", "ghp_token"}
TextTokens == {START_MARKER, END_MARKER, "x", "y"}

\* the weeks of a calendar: the first week is cut short, as a year rarely
\* starts on the first day of a week
Weeks(ds) ==
  IF ds = <<>> THEN <<>>
  ELSE IF Len(ds) = 1 THEN <<[contributionDays |-> ds]>>
  ELSE <<[contributionDays |-> <<Head(ds)>>], [contributionDays |-> Tail(ds)]>>

\* the READMEs and the calendars of the whole run
RunFiles == SeqsUpTo({START_MARKER, END_MARKER, "x"}, 3)
RunCalendars ==
  {Weeks(ds) : ds \in SeqsUpTo(
     {[date |-> Now, contributionCount |-> [t |-> "number", v |-> n]] : n \in 0..1}, 1)}

InitLocals ==
  /\ requests = <<>>
  /\ responses = <<>>
  /\ sortedYears = <<>>
  /\ idx = 0
  /\ today = 0
  /\ days = <<>>
  /\ stats = <<>>
  /\ block = <<>>
  /\ content = <<>>
  /\ stdout = <<>>
  /\ stderr = <<>>
  /\ exitCode = 0
  /\ reads = 0
  /\ writes = 0

Init ==
  /\ pc = "main"
  /\ token \in Tokens
  /\ file \in RunFiles
  /\ file0 = file
  /\ apiYears \in SeqsUpTo(Years, NumYears)
  /\ apiCalendar \in [Years -> RunCalendars]
  /\ InitLocals

Next ==
  \/ CheckToken
  \/ SendYearsQuery
  \/ RecvYears
  \/ SendCalendarQuery
  \/ RecvCalendar
  \/ ReturnDays
  \/ ComputeStats
  \/ RenderStats
  \/ InjectRead
  \/ InjectWrite
  \/ LogSummary

Spec == Init /\ [][Next]_vars

----------------------------------------------------------------------------
(* computeStats and renderStats on their own: main from line 19, for every *)
(* day sequence of up to MaxLen days                                       *)

\* day sequences as the aggregator returns them: in date order; a count is
\* whatever NumberOrZero lets through
DaySeqs ==
  {[i \in DOMAIN c |-> [date |-> i, count |-> c[i]]] :
     c \in SeqsUpTo((-1)..MaxCount, MaxLen)}

InitStats ==
  /\ pc = "compute"
  /\ token = "ghp_token"
  /\ file = <<START_MARKER, END_MARKER>>
  /\ file0 = file
  /\ apiYears = <<>>
  /\ apiCalendar = [y \in Years |-> <<>>]
  /\ requests = <<>> /\ responses = <<>> /\ sortedYears = <<>>
  /\ idx = 0 /\ today = Now
  /\ days \in DaySeqs
  /\ stats = <<>> /\ block = <<>> /\ content = <<>> /\ stdout = <<>>
  /\ stderr = <<>> /\ exitCode = 0 /\ reads = 0 /\ writes = 0

NextStats == ComputeStats \/ RenderStats

SpecStats == InitStats /\ [][NextStats]_vars

----------------------------------------------------------------------------
(* injectStats on its own: main from line 21, for every README of up to    *)
(* MaxFileLen tokens                                                       *)

FileTexts == SeqsUpTo(TextTokens, MaxFileLen)

InitInject ==
  /\ pc = "inject"
  /\ token = "ghp_token"
  /\ file \in FileTexts
  /\ file0 = file
  /\ apiYears = <<>>
  /\ apiCalendar = [y \in Years |-> <<>>]
  /\ requests = <<>> /\ responses = <<>> /\ sortedYears = <<>>
  /\ idx = 0 /\ today = Now
  /\ days \in {d \in DaySeqs : Len(d) <= 1}
  /\ stats = <<computeStats(days)>>
  /\ block = renderStats(stats[1])
  /\ content = <<>> /\ stdout = <<>>
  /\ stderr = <<>> /\ exitCode = 0 /\ reads = 0 /\ writes = 0

NextInject == InjectRead \/ InjectWrite \/ LogSummary

SpecInject == InitInject /\ [][NextInject]_vars

----------------------------------------------------------------------------
(* fetchAllContributionDays on its own: main from line 18, for every       *)
(* calendar of up to MaxDays days spread over the last two years           *)

ApiCalendars ==
  {[y \in Years |->
      IF y = CurrentYear - 1 THEN Weeks(SubSeq(ds, 1, k))
      ELSE IF y = CurrentYear THEN Weeks(SubSeq(ds, k + 1, Len(ds)))
      ELSE <<>>] :
     <<ds, k>> \in {p \in SeqsUpTo(ApiDays, MaxDays) \X (0..MaxDays) :
                      p[2] <= Len(p[1])}}

InitAggregate ==
  /\ pc = "fetchYears"
  /\ token = "ghp_token"
  /\ file = <<START_MARKER, END_MARKER>>
  /\ file0 = file
  /\ apiYears = <<CurrentYear, CurrentYear - 1>>
  /\ apiCalendar \in ApiCalendars
  /\ InitLocals

NextAggregate ==
  \/ SendYearsQuery
  \/ RecvYears
  \/ SendCalendarQuery
  \/ RecvCalendar
  \/ ReturnDays
  \/ ComputeStats

SpecAggregate == InitAggregate /\ [][NextAggregate]_vars

----------------------------------------------------------------------------
(* Properties *)

\* the README markers error, and the token error, as main().catch prints them
MarkersError == <<"README is missing required GITHUB-STATS markers">>
TokenError == <<"GITHUB_TOKEN is required">>

\* a response that makes its request fail: a non-success status, an errors
\* field, an absent or empty year list, an absent or malformed calendar
RequestFailed(r) == ~r.ok \/ r.errors \/ r.data # "present"

\* the number of positions of s that hold x
Count(s, x) == Cardinality({i \in DOMAIN s : s[i] = x})

\* C1: when the README lacks the start marker or lacks the end marker,
\* injectStats throws the markers error (the ConfigError of the README), the
\* run fails, nothing is written and the README is what it was.
C1_MissingSentinelNoWrite ==
  (pc # "inject" /\ (START_MARKER \notin Range(file0) \/ END_MARKER \notin Range(file0)))
    => /\ pc = "failed"
       /\ stderr = MarkersError
       /\ exitCode = 1
       /\ writes = 0
       /\ file = file0

\* C1 witness: a README with a start marker and no end marker was refused
C1_Witness ==
  /\ pc = "failed"
  /\ START_MARKER \in Range(file0)
  /\ END_MARKER \notin Range(file0)
  /\ Len(file0) >= 2
  /\ reads = 1

\* C2: for every README that holds both markers, the written text is the read
\* text with exactly one span, from a start marker through an end marker,
\* replaced by the block; the text before and after that span is kept.
C2_ExactlyOneSpanReplaced ==
  (pc \in {"log", "done"})
    => \E i, j \in DOMAIN content :
         /\ i < j
         /\ content[i] = START_MARKER
         /\ content[j] = END_MARKER
         /\ file = SubSeq(content, 1, i - 1) \o block
                   \o SubSeq(content, j + 1, Len(content))

\* C3: every run that ends in success (summary printed, exit code 0) leaves
\* the README holding the rendered block, whatever the arrangement of the two
\* markers in it.
C3_SuccessLeavesFragment ==
  (pc = "done" /\ stdout # <<>> /\ exitCode = 0)
    => \E k \in 1..(Len(file) - Len(block) + 1) :
         SubSeq(file, k, k + Len(block) - 1) = block

\* C4: the README is read and written, and the summary printed, only after
\* the year query and one calendar query per year have all succeeded and the
\* statistics are computed and rendered; once any request has failed the run
\* has failed: the README was never read or written, nothing was printed to
\* standard output, and the exit code is not zero.
C4_WriteOnlyAfterAllFetched ==
  /\ (reads > 0 \/ writes > 0 \/ stdout # <<>>)
       => /\ Len(requests) = 1 + Len(apiYears)
          /\ Len(responses) = Len(requests)
          /\ \A k \in DOMAIN responses : ~RequestFailed(responses[k])
          /\ stats # <<>>
          /\ block # <<>>
  /\ (\E k \in DOMAIN responses : RequestFailed(responses[k]))
       => /\ pc = "failed"
          /\ reads = 0
          /\ writes = 0
          /\ file = file0
          /\ stdout = <<>>
          /\ exitCode # 0

\* C4 witness: the calendar query of the second year failed
C4_Witness ==
  /\ pc = "failed"
  /\ Len(apiYears) = 2
  /\ Len(responses) = 3
  /\ ~RequestFailed(responses[2])
  /\ RequestFailed(responses[3])

\* C5: with the token absent or empty the run fails with the token error (the
\* ConfigError of the credential) at its first step: no request is ever
\* issued, and the README is neither read nor written.
C5_MissingTokenFailsFirst ==
  (token = "undefined" \/ token = "")
    => /\ requests = <<>>
       /\ reads = 0
       /\ writes = 0
       /\ file = file0
       /\ pc # "main" => (pc = "failed" /\ stderr = TokenError /\ exitCode = 1)

\* C5 witness: a run with the empty string as its token has failed
C5_Witness == pc = "failed" /\ token = "" /\ stderr = TokenError

\* the number of entries with count > 0 at the end of ds
TrailingPositive(ds) ==
  CHOOSE k \in 0..Len(ds) :
    /\ \A i \in (Len(ds) - k + 1)..Len(ds) : ds[i].count > 0
    /\ k < Len(ds) => ~(ds[Len(ds) - k].count > 0)

\* the lengths of the contiguous runs of entries with count > 0 in ds
RunLengths(ds) ==
  {k \in 0..Len(ds) :
     \E i \in 1..(Len(ds) - k + 1) : \A j \in i..(i + k - 1) : ds[j].count > 0}

\* C6: for every day sequence, the empty one included, currentStreak is the
\* number of entries with count > 0 at the end of the sequence, counted
\* backward up to the first entry that has none.
C6_CurrentStreakIsTrailingRun ==
  stats # <<>> => stats[1].currentStreak = TrailingPositive(days)

\* C6 witness: a streak of two at the end, after a day without contributions
\* that follows a day with some
C6_Witness ==
  /\ stats # <<>>
  /\ Len(days) = 4
  /\ days[1].count > 0
  /\ days[2].count = 0
  /\ stats[1].currentStreak = 2

\* C7: for every day sequence, the empty one included (where it is 0),
\* longestStreak is the greatest length of a contiguous run of entries with
\* count > 0.
C7_LongestStreakIsMaxRun ==
  stats # <<>>
    => /\ stats[1].longestStreak \in RunLengths(days)
       /\ \A k \in RunLengths(days) : k <= stats[1].longestStreak

\* C7 witness: the longest run, of two, is not the last one
C7_Witness ==
  /\ stats # <<>>
  /\ Len(days) = 5
  /\ stats[1].longestStreak = 2
  /\ stats[1].currentStreak = 1

\* C8 as stated: some day sequence, the one of this run or any other of up
\* to MaxLen days, makes computeStats return a currentStreak greater than its
\* longestStreak.
C8_CurrentCanExceedLongest ==
  \E ds \in DaySeqs \cup {days} :
    computeStats(ds).currentStreak > computeStats(ds).longestStreak

\* C8 amended: for every day sequence computeStats returns a longestStreak
\* that is at least its currentStreak.
C8_LongestAtLeastCurrent ==
  stats # <<>> => stats[1].longestStreak >= stats[1].currentStreak

\* C8 witness: a run that ends the sequence and is the longest one
C8_Witness ==
  /\ stats # <<>>
  /\ Len(days) >= 3
  /\ days[1].count = 0
  /\ stats[1].currentStreak = Len(days) - 1
  /\ stats[1].longestStreak = stats[1].currentStreak

\* the years the calendar queries issued so far ask for, in order
RequestedYears ==
  [k \in 1..(Len(requests) - 1) |-> GetUTCFullYear(requests[k + 1].from)]

\* C9: the year query is the first request; the calendar queries follow, one
\* per entry of the year list, in ascending order of year; a request is issued
\* only when every earlier one is resolved; after a failed request none is
\* issued.
C9_SequentialAscendingQueries ==
  /\ requests # <<>> => requests[1] = YearsQuery
  /\ \A k \in 2..Len(requests) : requests[k].query = "contributionCalendar"
  /\ \A k \in DOMAIN RequestedYears :
       /\ RequestedYears[k] \in Range(apiYears)
       /\ \A l \in DOMAIN RequestedYears : k < l => RequestedYears[k] <= RequestedYears[l]
       /\ \A y \in Range(apiYears) :
            y < RequestedYears[k]
              => Count(SubSeq(RequestedYears, 1, k - 1), y) = Count(apiYears, y)
  /\ \A y \in Years : Count(RequestedYears, y) <= Count(apiYears, y)
  /\ pc \in {"compute", "render", "inject", "replace", "log", "done"}
       => \A y \in Years : Count(RequestedYears, y) = Count(apiYears, y)
  /\ Len(requests) - Len(responses) \in {0, 1}
  /\ \A k \in DOMAIN responses : RequestFailed(responses[k]) => Len(requests) = k

\* C9 witness: the API listed the years in descending order and every one of
\* them was queried
C9_Witness ==
  /\ pc = "compute"
  /\ Len(apiYears) = 2
  /\ apiYears[1] > apiYears[2]
  /\ Len(requests) = 3

\* the days of a calendar's weeks as the API holds them, in order
RECURSIVE ApiDaysOf(_)
ApiDaysOf(weeks) ==
  IF weeks = <<>> THEN <<>>
  ELSE Head(weeks).contributionDays \o ApiDaysOf(Tail(weeks))

\* the API days of the calendars fetched so far, in the order fetched
RECURSIVE Fetched(_)
Fetched(n) ==
  IF n = 0 THEN <<>>
  ELSE Fetched(n - 1) \o ApiDaysOf(apiCalendar[sortedYears[n]])

\* a contributionCount that is a non-negative integer, a string of one, or
\* no number at all
Unsigned(raw) == raw.t \in {"number", "numeric string"} => raw.v >= 0

\* C10 as stated: every day of the aggregator's sequence has a non-negative
\* integer count, whatever the API carries, and so has the total.
C10_CountsAlwaysNatural ==
  /\ \A i \in DOMAIN days : days[i].count \in Nat
  /\ stats # <<>> => stats[1].total \in Nat

\* C10 amended: a day's count is 0 when the API's contributionCount is
\* missing, null or a string that is not numeric, and the contributionCount
\* itself when that is a non-negative integer or a string of one; so when the
\* API carries no negative number every count, and the total, is a
\* non-negative integer.
C10_CountsNaturalUnlessNegative ==
  /\ pc \in {"loop", "awaitCalendar"}
       => /\ Len(days) = Len(Fetched(idx - 1))
          /\ \A i \in DOMAIN days :
               LET raw == Fetched(idx - 1)[i].contributionCount
               IN /\ raw.t \in {"undefined", "null", "text"} => days[i].count = 0
                  /\ (raw.t \in {"number", "numeric string"} /\ raw.v >= 0)
                       => days[i].count = raw.v
  /\ (\A y \in Years : \A i \in DOMAIN ApiDaysOf(apiCalendar[y]) :
        Unsigned(ApiDaysOf(apiCalendar[y])[i].contributionCount))
       => /\ \A i \in DOMAIN days : days[i].count \in Nat
          /\ stats # <<>> => stats[1].total \in Nat

\* C10 witness: the statistics of two days, one whose contributionCount is
\* not numeric and one whose contributionCount is a numeric string
C10_Witness ==
  /\ stats # <<>>
  /\ Len(days) = 2
  /\ stats[1].total = 1
  /\ \E y \in Years : \E i \in DOMAIN ApiDaysOf(apiCalendar[y]) :
       ApiDaysOf(apiCalendar[y])[i].contributionCount.t = "text"
  /\ \E y \in Years : \E i \in DOMAIN ApiDaysOf(apiCalendar[y]) :
       ApiDaysOf(apiCalendar[y])[i].contributionCount.t = "numeric string"

====
